---- MODULE Spec2Model ----
(***************************************************************************)
(* Model of the CNPJ ingestion pipeline: Processor (src/src/processor.py)  *)
(* and SQLiteAdapter (src/src/database/sqlite.py).                         *)
(*                                                                         *)
(* Execution is single-threaded, so one behaviour is one pipeline process  *)
(* working through files one after another.  Every I/O operation, storage  *)
(* call and reconciliation-source call may fail; a failure is a separate   *)
(* disjunct of the action that models the statement.                       *)
(*                                                                         *)
(* Scaling: a file's size is measured in rows, so chunk_size (1_000_000    *)
(* rows in the code), encoding_chunk_size (bytes) and max_file_size_mb are *)
(* all small numbers of rows here.                                         *)
(***************************************************************************)
EXTENDS Integers, Sequences, FiniteSets, TLC

(***************************************************************************)
(* Bounds of the model                                                     *)
(***************************************************************************)
MaxRows == 3          \* longest input file, in rows
MaxChunkSize == 2     \* largest window size (chunk_size) tried

(***************************************************************************)
(* Static tables of processor.py                                           *)
(***************************************************************************)
\* FILE_MAPPINGS.keys(), in the dict's insertion order
Patterns ==
    << "CNAECSV", "MOTICSV", "MUNICCSV", "NATJUCSV", "PAISCSV", "QUALSCSV",
       "EMPRECSV", "ESTABELE", "SOCIOCSV", "SIMPLESCSV" >>

FILE_MAPPINGS ==
    [ p \in { Patterns[i] : i \in 1..Len(Patterns) } |->
        CASE p = "CNAECSV"    -> "cnaes"
          [] p = "MOTICSV"    -> "motivos"
          [] p = "MUNICCSV"   -> "municipios"
          [] p = "NATJUCSV"   -> "naturezas_juridicas"
          [] p = "PAISCSV"    -> "paises"
          [] p = "QUALSCSV"   -> "qualificacoes_socios"
          [] p = "EMPRECSV"   -> "empresas"
          [] p = "ESTABELE"   -> "estabelecimentos"
          [] p = "SOCIOCSV"   -> "socios"
          [] p = "SIMPLESCSV" -> "dados_simples" ]

\* REFERENCE_ENHANCEMENTS: file type -> source of the external code list
REFERENCE_ENHANCEMENTS ==
    [ p \in {"MOTICSV", "PAISCSV"} |->
        IF p = "MOTICSV" THEN "serpro" ELSE "hardcoded" ]

NoType == "None"

(***************************************************************************)
(* Inputs                                                                  *)
(***************************************************************************)
ExtDesc == "ext"

\* A raw row of a code table: <<codigo, descricao>> as text fields.  Code A
\* comes with two descriptions, so that a file can hold the same key twice
\* with different content.
RawRows == { << "A", "d1" >>, << "A", "d2" >>, << "B", "d1" >> }

RECURSIVE SeqsUpTo(_, _)
SeqsUpTo(S, n) ==
    IF n = 0 THEN { <<>> }
    ELSE LET shorter == SeqsUpTo(S, n - 1)
         IN  shorter \cup { Append(s, x) : s \in { t \in shorter : Len(t) = n - 1 }, x \in S }

\* A text is a sequence of one-character strings.
\* Chars[p] is the spelling of the marker p
Chars ==
    [ p \in { Patterns[i] : i \in 1..Len(Patterns) } |->
        CASE p = "CNAECSV"    -> << "C", "N", "A", "E", "C", "S", "V" >>
          [] p = "MOTICSV"    -> << "M", "O", "T", "I", "C", "S", "V" >>
          [] p = "MUNICCSV"   -> << "M", "U", "N", "I", "C", "C", "S", "V" >>
          [] p = "NATJUCSV"   -> << "N", "A", "T", "J", "U", "C", "S", "V" >>
          [] p = "PAISCSV"    -> << "P", "A", "I", "S", "C", "S", "V" >>
          [] p = "QUALSCSV"   -> << "Q", "U", "A", "L", "S", "C", "S", "V" >>
          [] p = "EMPRECSV"   -> << "E", "M", "P", "R", "E", "C", "S", "V" >>
          [] p = "ESTABELE"   -> << "E", "S", "T", "A", "B", "E", "L", "E" >>
          [] p = "SOCIOCSV"   -> << "S", "O", "C", "I", "O", "C", "S", "V" >>
          [] p = "SIMPLESCSV" -> << "S", "I", "M", "P", "L", "E", "S", "C", "S", "V" >> ]

\* File names, character by character:
\*   "xPAISCSV.MotiCsv1"  two markers, inside longer words, one in mixed case
\*   "f1.cnaec<U+017F>v"  one marker in lower case, its S written as long s
\*   "README.TXT"         no marker
FileNames ==
    { << "x", "P", "A", "I", "S", "C", "S", "V", ".", "M", "o", "t", "i", "C", "s", "v", "1" >>,
      << "f", "1", ".", "c", "n", "a", "e", "c", "U+017F", "v" >>,
      << "R", "E", "A", "D", "M", "E", ".", "T", "X", "T" >> }

Directories == {"2024-01"}

LowerCase ==
    << "a", "b", "c", "d", "e", "f", "g", "h", "i", "j", "k", "l", "m",
       "n", "o", "p", "q", "r", "s", "t", "u", "v", "w", "x", "y", "z" >>

UpperCase ==
    << "A", "B", "C", "D", "E", "F", "G", "H", "I", "J", "K", "L", "M",
       "N", "O", "P", "Q", "R", "S", "T", "U", "V", "W", "X", "Y", "Z" >>

\* A character outside Basic Latin is named by its code point ("U+017F").
\* SpecialCasing[c] is str.upper() of c for every such character whose image
\* holds a Basic Latin letter, and so can spell part of a marker; the image
\* may be longer than one character.  U+00E9 stands for the lower-case
\* letters whose image holds none.
SpecialCasing ==
    [ c \in { "U+00DF", "U+0131", "U+0149", "U+017F", "U+01F0", "U+1E96",
          "U+1E97", "U+1E98", "U+1E99", "U+1E9A", "U+FB00", "U+FB01",
          "U+FB02", "U+FB03", "U+FB04", "U+FB05", "U+FB06", "U+00E9" } |->
        CASE c = "U+00DF" -> << "S", "S" >>   \* sharp s
          [] c = "U+0131" -> << "I" >>   \* dotless i
          [] c = "U+0149" -> << "U+02BC", "N" >>   \* n preceded by apostrophe
          [] c = "U+017F" -> << "S" >>   \* long s
          [] c = "U+01F0" -> << "J", "U+030C" >>   \* j with caron
          [] c = "U+1E96" -> << "H", "U+0331" >>   \* h with line below
          [] c = "U+1E97" -> << "T", "U+0308" >>   \* t with diaeresis
          [] c = "U+1E98" -> << "W", "U+030A" >>   \* w with ring above
          [] c = "U+1E99" -> << "Y", "U+030A" >>   \* y with ring above
          [] c = "U+1E9A" -> << "A", "U+02BE" >>   \* a with right half ring
          [] c = "U+FB00" -> << "F", "F" >>   \* ligature ff
          [] c = "U+FB01" -> << "F", "I" >>   \* ligature fi
          [] c = "U+FB02" -> << "F", "L" >>   \* ligature fl
          [] c = "U+FB03" -> << "F", "F", "I" >>   \* ligature ffi
          [] c = "U+FB04" -> << "F", "F", "L" >>   \* ligature ffl
          [] c = "U+FB05" -> << "S", "T" >>   \* ligature long s t
          [] c = "U+FB06" -> << "S", "T" >>   \* ligature st
          [] c = "U+00E9" -> << "U+00C9" >>   \* e with acute
    ]

Digits == { "0", "1", "2", "3", "4", "5", "6", "7", "8", "9" }

\* the alphabet of file names: Basic Latin letters, digits and separators,
\* the characters of SpecialCasing and those of their images
Characters ==
    { LowerCase[i] : i \in 1..Len(LowerCase) }
        \cup { UpperCase[i] : i \in 1..Len(UpperCase) }
        \cup Digits \cup { ".", "_", "-", " " }
        \cup DOMAIN SpecialCasing
        \cup UNION { { SpecialCasing[c][i] : i \in 1..Len(SpecialCasing[c]) } :
                        c \in DOMAIN SpecialCasing }

\* str.upper() of a one-character string of the alphabet: a text
Upper(c) ==
    CASE c \in DOMAIN SpecialCasing -> SpecialCasing[c]
      [] c \in Characters \ DOMAIN SpecialCasing ->
            IF \E i \in 1..Len(LowerCase) : LowerCase[i] = c
            THEN << UpperCase[CHOOSE i \in 1..Len(LowerCase) : LowerCase[i] = c] >>
            ELSE << c >>

\* the external code list of a reconciliation source, in the provider's order
ExtRow(c) == [codigo |-> c, descricao |-> ExtDesc]

ExternalLists == { <<>>, << ExtRow("B") >>, << ExtRow("A"), ExtRow("B") >> }

TableNames == {"cnaes", "motivos"}

Thresholds == {-1, MaxRows}

(***************************************************************************)
(* State                                                                   *)
(***************************************************************************)
VARIABLES
    pc,                \* position of the single flow of control
    chunk_size,        \* window size of the chunked loader
    max_file_size_mb,  \* config.max_file_size_mb
    external,          \* the reconciliation source's code list
    tables,            \* destination tables: table name -> set of rows
    tables0,           \* the tables as they were when this load began
    ledger,            \* processed_files: set of rows
    marks,             \* the pairs marked in the database the ledger is in
    db_file,           \* SQLiteAdapter.db_file: ":memory:" or a file's path
    tracking_table,    \* the table processed_files exists in the database
    cur,               \* the input file being ingested
    file_type,         \* process_file's file_type
    temp_exists,       \* the temporary .utf8.csv file exists on disk
    utf8_file,         \* process_file's utf8_file variable is set
    utf8_rows,         \* content written to the temporary file
    df,                \* the batch held in memory (df / chunk_df)
    sample_df,         \* _process_large_file_chunked: sample_df
    offset,            \* _process_large_file_chunked: offset
    batch_num,         \* _process_large_file_chunked: batch_num
    total_processed,   \* _process_large_file_chunked: total_processed
    reads,             \* windows read in this load
    upserts,           \* bulk_upsert calls issued in this load
    raised,            \* the exception travelling up, or "none"
    ret,               \* what process_file returned
    outcome,           \* how the last file ended
    recon              \* what the reconciliation step of this load did

vars ==
    << pc, chunk_size, max_file_size_mb, external, tables, tables0, ledger, marks, db_file,
       tracking_table, cur, file_type, temp_exists, utf8_file, utf8_rows, df, sample_df, offset,
       batch_num, total_processed, reads, upserts, raised, ret, outcome, recon >>

NoFile == [directory |-> "None", filename |-> <<>>, rows |-> <<>>]
NoRet == [kind |-> "unset"]

Init ==
    /\ pc = "idle"
    /\ chunk_size \in 1..MaxChunkSize
    /\ max_file_size_mb \in Thresholds
    /\ external \in ExternalLists
    /\ tables = [t \in TableNames |-> {}]
    /\ tables0 = tables
    /\ ledger = {}
    /\ marks = {}
    /\ db_file = ":memory:"
    /\ tracking_table = TRUE
    /\ cur = NoFile
    /\ file_type = NoType
    /\ temp_exists = FALSE
    /\ utf8_file = FALSE
    /\ utf8_rows = <<>>
    /\ df = <<>>
    /\ sample_df = <<>>
    /\ offset = 0
    /\ batch_num = 0
    /\ total_processed = 0
    /\ reads = <<>>
    /\ upserts = <<>>
    /\ raised = "none"
    /\ ret = NoRet
    /\ outcome = "none"
    /\ recon = "none"

(***************************************************************************)
(* Pure helpers                                                            *)
(***************************************************************************)
Min(a, b) == IF a < b THEN a ELSE b

\* filename.upper(): the images of the characters, one after another
RECURSIVE filename_upper(_)
filename_upper(filename) ==
    IF filename = <<>> THEN <<>>
    ELSE Upper(Head(filename)) \o filename_upper(Tail(filename))

\* `pattern in filename_upper`: the marker's spelling is a substring of name
Contains(pattern, name) ==
    LET word == Chars[pattern]
    IN  \E i \in 0..(Len(name) - Len(word)) :
            SubSeq(name, i + 1, i + Len(word)) = word

\* a lookup that falls back on the first category when no marker is found
get_file_type_guessing(filename) ==
    LET up   == filename_upper(filename)
        hits == { i \in 1..Len(Patterns) : Contains(Patterns[i], up) }
    IN  IF hits = {} THEN Patterns[1]
        ELSE Patterns[CHOOSE i \in hits : \A j \in hits : i <= j]

\* Processor._get_file_type: the first key of FILE_MAPPINGS found in the
\* upper-cased name, or None
get_file_type(filename) ==
    LET up   == filename_upper(filename)
        hits == { i \in 1..Len(Patterns) : Contains(Patterns[i], up) }
    IN  IF hits = {} THEN NoType
        ELSE Patterns[CHOOSE i \in hits : \A j \in hits : i <= j]

\* two rows with different keys
KeyRows == { << "A", "d1" >>, << "B", "d1" >> }

\* The contents a file of each name may have.  The file of a reconciled
\* category is drawn from all of RawRows when it is shorter than MaxRows and
\* from KeyRows when it has MaxRows rows; the others are drawn from KeyRows,
\* which keeps the product of the tables' contents small.
FileContents ==
    [ f \in FileNames |->
        IF get_file_type(f) \in DOMAIN REFERENCE_ENHANCEMENTS
        THEN SeqsUpTo(RawRows, MaxRows - 1)
                \cup { s \in SeqsUpTo(KeyRows, MaxRows) : Len(s) = MaxRows }
        ELSE SeqsUpTo(KeyRows, MaxRows) ]

\* Processor._get_file_size_mb, in rows
get_file_size_mb(content) == Len(content)

\* polars.exceptions.NoDataError, raised by a read that finds no data
NoDataError == "NoDataError"

\* pl.read_csv(..., skip_rows, n_rows) with the default raise_if_empty=True:
\* the rows after the first skip_rows, at most n_rows of them; when no row
\* is left behind the skipped ones (an empty file included) the read raises
\* NoDataError instead of returning an empty frame
read_csv(content, skip_rows, n_rows) ==
    IF skip_rows >= Len(content)
    THEN [raises |-> NoDataError, df |-> <<>>]
    ELSE [raises |-> "none",
          df |-> SubSeq(content, skip_rows + 1,
                        Min(skip_rows + n_rows, Len(content)))]

\* infile.read(n) at position pos of the input
infile_read(content, pos, n) ==
    SubSeq(content, pos + 1, Min(pos + n, Len(content)))

\* COLUMN_MAPPINGS: per file type, the column names by position
COLUMN_MAPPINGS ==
    [ p \in DOMAIN FILE_MAPPINGS |->
        CASE p = "EMPRECSV" ->
               << "cnpj_basico", "razao_social", "natureza_juridica",
                  "qualificacao_responsavel", "capital_social", "porte",
                  "ente_federativo_responsavel" >>
          [] p = "ESTABELE" ->
               << "cnpj_basico", "cnpj_ordem", "cnpj_dv",
                  "identificador_matriz_filial", "nome_fantasia",
                  "situacao_cadastral", "data_situacao_cadastral",
                  "motivo_situacao_cadastral", "nome_cidade_exterior", "pais",
                  "data_inicio_atividade", "cnae_fiscal_principal",
                  "cnae_fiscal_secundaria", "tipo_logradouro", "logradouro",
                  "numero", "complemento", "bairro", "cep", "uf", "municipio",
                  "ddd_1", "telefone_1", "ddd_2", "telefone_2", "ddd_fax",
                  "fax", "correio_eletronico", "situacao_especial",
                  "data_situacao_especial" >>
          [] p = "SOCIOCSV" ->
               << "cnpj_basico", "identificador_de_socio", "nome_socio",
                  "cnpj_cpf_do_socio", "qualificacao_do_socio",
                  "data_entrada_sociedade", "pais", "representante_legal",
                  "nome_do_representante",
                  "qualificacao_do_representante_legal", "faixa_etaria" >>
          [] p = "SIMPLESCSV" ->
               << "cnpj_basico", "opcao_pelo_simples",
                  "data_opcao_pelo_simples", "data_exclusao_do_simples",
                  "opcao_pelo_mei", "data_opcao_pelo_mei",
                  "data_exclusao_do_mei" >>
          [] OTHER -> << "codigo", "descricao" >> ]

\* NUMERIC_COLUMNS.get(file_type, [])
NUMERIC_COLUMNS(ft) ==
    IF ft = "EMPRECSV" THEN {"capital_social"} ELSE {}

\* DATE_COLUMNS.get(file_type, [])
DATE_COLUMNS(ft) ==
    CASE ft = "ESTABELE" ->
           {"data_situacao_cadastral", "data_inicio_atividade",
            "data_situacao_especial"}
      [] ft = "SIMPLESCSV" ->
           {"data_opcao_pelo_simples", "data_exclusao_do_simples",
            "data_opcao_pelo_mei", "data_exclusao_do_mei"}
      [] ft = "SOCIOCSV" -> {"data_entrada_sociedade"}
      [] OTHER -> {}

\* A text field of the big tables is a sequence of characters; the null of a
\* dataframe is Null.  (The rows of the code tables carry their two fields
\* as whole values: nothing looks into them.)
Null == << "NULL" >>

DigitChars == << "0", "1", "2", "3", "4", "5", "6", "7", "8", "9" >>

IsDigit(c) == \E n \in 1..Len(DigitChars) : DigitChars[n] = c

DigitValue(c) == (CHOOSE n \in 1..Len(DigitChars) : DigitChars[n] = c) - 1

AllDigits(s) == \A i \in 1..Len(s) : IsDigit(s[i])

\* the number a sequence of digits writes
RECURSIVE Num(_)
Num(ds) ==
    IF ds = <<>> THEN 0
    ELSE Num(SubSeq(ds, 1, Len(ds) - 1)) * 10 + DigitValue(ds[Len(ds)])

\* position of the first c in s, 0 when there is none
IndexOf(s, c) ==
    IF \E i \in 1..Len(s) : s[i] = c
    THEN CHOOSE i \in 1..Len(s) :
             s[i] = c /\ \A j \in 1..(i - 1) : s[j] # c
    ELSE 0

\* a Float64 value: mantissa / 10^decimals, without trailing zero decimals
RECURSIVE Float(_, _)
Float(mantissa, decimals) ==
    IF decimals > 0 /\ mantissa % 10 = 0
    THEN Float(mantissa \div 10, decimals - 1)
    ELSE [mantissa |-> mantissa, decimals |-> decimals]

\* a replacement that leaves the value as it is
str_replace_skipped(s, pattern, value) == s

\* pl.col(col).str.replace(pattern, value): the first match is replaced
str_replace(s, pattern, value) ==
    IF s = Null THEN Null
    ELSE LET k == IndexOf(s, pattern)
         IN  IF k = 0 THEN s
             ELSE SubSeq(s, 1, k - 1) \o << value >> \o SubSeq(s, k + 1, Len(s))

\* .cast(pl.Float64, strict=False): an optional sign, digits with at most
\* one decimal point and at least one digit; anything else becomes null
cast_float(s) ==
    IF s = Null THEN Null
    ELSE LET signed == s # <<>> /\ s[1] \in {"-", "+"}
             body   == IF signed THEN Tail(s) ELSE s
             k      == IndexOf(body, ".")
             int    == IF k = 0 THEN body ELSE SubSeq(body, 1, k - 1)
             frac   == IF k = 0 THEN <<>> ELSE SubSeq(body, k + 1, Len(body))
             m      == Num(int \o frac)
         IN  IF AllDigits(int) /\ AllDigits(frac) /\ Len(int) + Len(frac) > 0
             THEN Float(IF signed /\ s[1] = "-" THEN 0 - m ELSE m, Len(frac))
             ELSE Null

\* .str.strip_chars(): leading and trailing whitespace is removed
RECURSIVE strip_chars(_)
strip_chars(s) ==
    IF s = <<>> THEN s
    ELSE IF s[1] = " " THEN strip_chars(Tail(s))
    ELSE IF s[Len(s)] = " " THEN strip_chars(SubSeq(s, 1, Len(s) - 1))
    ELSE s

\* a padding that does nothing
zfill_skipped(s, length) == s

\* .str.zfill(length): zeros are put in front until the length is reached,
\* behind a leading minus sign
zfill(s, length) ==
    LET zeros == [i \in 1..(length - Len(s)) |-> "0"]
    IN  IF Len(s) >= length THEN s
        ELSE IF s # <<>> /\ s[1] = "-" THEN << "-" >> \o zeros \o Tail(s)
        ELSE zeros \o s

\* Processor._transform_country_codes on one row
transform_country_codes(row) ==
    IF "pais" \in DOMAIN row
    THEN [row EXCEPT !["pais"] =
             IF row["pais"] # Null /\ row["pais"] # <<>>
             THEN zfill(strip_chars(row["pais"]), 3)
             ELSE row["pais"]]
    ELSE row

\* Processor._apply_transformations on one row: the positional columns are
\* renamed, the numeric columns converted, the date columns cleaned and the
\* country code of ESTABELE padded.  A row has at most as many fields as
\* the mapping of its file type has names.
transform_row(row, ft) ==
    LET names   == COLUMN_MAPPINGS[ft]
        columns == { names[i] : i \in 1..Len(row) }
        renamed == [c \in columns |->
                       row[CHOOSE i \in 1..Len(row) : names[i] = c]]
        numeric == [c \in columns |->
                       IF c \in NUMERIC_COLUMNS(ft)
                       THEN cast_float(str_replace(renamed[c], ",", "."))
                       ELSE renamed[c]]
        dates   == [c \in columns |->
                       IF c \in DATE_COLUMNS(ft) /\ numeric[c] = << "0" >>
                       THEN Null
                       ELSE numeric[c]]
    IN  IF ft = "ESTABELE" THEN transform_country_codes(dates) ELSE dates

\* Processor._apply_transformations
apply_transformations(rows, ft) ==
    [i \in 1..Len(rows) |-> transform_row(rows[i], ft)]

\* INSERT OR REPLACE of one row, keyed by the table's natural key (codigo)
InsertOrReplace(t, r) == { x \in t : x.codigo # r.codigo } \cup { r }

RECURSIVE executemany(_, _)
executemany(t, rows) ==
    IF rows = <<>> THEN t
    ELSE executemany(InsertOrReplace(t, Head(rows)), Tail(rows))

\* SQLiteAdapter.bulk_upsert
bulk_upsert(t, rows) ==
    IF Len(rows) = 0 THEN t ELSE executemany(t, rows)

\* the times CURRENT_TIMESTAMP may give, in seconds: two inserts may get the
\* same second, and the wall clock may be set back between them
CURRENT_TIMESTAMP == {1, 2}

\* a row of processed_files (sqlite.py 42-47)
LedgerRow(directory, filename, now) ==
    [directory |-> directory, filename |-> filename, processed_at |-> now]

\* The table processed_files as a call of the adapter finds it: whether it
\* exists in the database the connection is on, and its rows.
processed_files == [exists |-> tracking_table, rows |-> ledger]

\* what a statement on a table that does not exist raises
OperationalError == "sqlite3.OperationalError: no such table: processed_files"

\* a lookup with the two key columns taken in the wrong order
is_processed_swapped(t, directory, filename) ==
    IF ~t.exists THEN OperationalError
    ELSE \E r \in t.rows :
            << r.directory >> = filename /\ r.filename = << directory >>

\* SQLiteAdapter.is_processed: True or False, or the error raised
is_processed(t, directory, filename) ==
    IF ~t.exists THEN OperationalError
    ELSE \E r \in t.rows : r.directory = directory /\ r.filename = filename

\* SQLiteAdapter.get_processed_files: the set of names, or the error raised
get_processed_files(t, directory) ==
    IF ~t.exists THEN OperationalError
    ELSE { r.filename : r \in { x \in t.rows : x.directory = directory } }

\* an INSERT OR REPLACE in the place of the INSERT OR IGNORE
mark_processed_replace(t, directory, filename, now) ==
    IF ~t.exists THEN OperationalError
    ELSE { r \in t.rows : ~(r.directory = directory /\ r.filename = filename) }
            \cup { LedgerRow(directory, filename, now) }

\* SQLiteAdapter.mark_processed: INSERT OR IGNORE under the primary key
\* (directory, filename); processed_at defaults to CURRENT_TIMESTAMP.  The
\* rows of the table after the call, or the error raised.
mark_processed(t, directory, filename, now) ==
    IF ~t.exists THEN OperationalError
    ELSE IF \E r \in t.rows : r.directory = directory /\ r.filename = filename
         THEN t.rows
         ELSE t.rows \cup { LedgerRow(directory, filename, now) }

\* an existing set taken before the batch is filled
existing_codes_none(rows) == {}

\* existing_codes = set(df["codigo"].to_list())
existing_codes_df(rows) == { rows[i].codigo : i \in 1..Len(rows) }

\* existing_codes = {row[0] for row in cur.fetchall()}
existing_codes_db(t) == { r.codigo : r \in t }

\* ReferenceDataManager.diff_motivos_data / diff_paises_data: the rows of the
\* external list whose code is not among the existing codes
diff_data(ext, existing) ==
    SelectSeq(ext, LAMBDA r : r.codigo \notin existing)

\* _enhance_motivos_data / _enhance_paises_data with a dataframe, when no
\* exception occurs
enhance_df(rows, ext) ==
    LET missing_df == diff_data(ext, existing_codes_df(rows))
    IN  IF Len(missing_df) > 0 THEN rows \o missing_df ELSE rows

\* _enhance_motivos_data / _enhance_paises_data with a database, when no
\* exception occurs
enhance_db(t, ext) ==
    LET missing_df == diff_data(ext, existing_codes_db(t))
    IN  IF Len(missing_df) > 0 THEN bulk_upsert(t, missing_df) ELSE t

(***************************************************************************)
(* Configuration that stays fixed during a run of the pipeline             *)
(***************************************************************************)
encoding_chunk_size == 1

SampleRows == 100

\* chunk_size, the configuration and the external list stay as they are; so
\* does the snapshot of the tables, which only BeginFile takes
\* the sample of the chunked loader is kept as it is by every step but the
\* one that reads it
SettingsUnchanged ==
    UNCHANGED << chunk_size, max_file_size_mb, external, tables0, db_file,
                 tracking_table >>

ConfigUnchanged ==
    /\ SettingsUnchanged
    /\ UNCHANGED sample_df

FixedUnchanged ==
    UNCHANGED << chunk_size, max_file_size_mb, external, db_file, tracking_table >>

table_name == FILE_MAPPINGS[file_type]

\* an exception leaves process_file through its except and finally clauses
Raise(e) ==
    /\ raised' = e
    /\ pc' = "pf_finally"

(***************************************************************************)
(* Per-file orchestration: ledger gate, load of the returned batch, mark   *)
(***************************************************************************)
\* The ledger reports the file as processed: it is skipped.
SkipProcessed ==
    /\ pc = "idle"
    /\ \E d \in Directories, f \in FileNames :
         /\ is_processed(processed_files, d, f)
         /\ cur' = [directory |-> d, filename |-> f, rows |-> <<>>]
    /\ outcome' = "skipped"
    /\ file_type' = NoType
    /\ temp_exists' = FALSE
    /\ utf8_file' = FALSE
    /\ utf8_rows' = <<>>
    /\ df' = <<>>
    /\ sample_df' = <<>>
    /\ offset' = 0
    /\ batch_num' = 0
    /\ total_processed' = 0
    /\ reads' = <<>>
    /\ upserts' = <<>>
    /\ raised' = "none"
    /\ ret' = NoRet
    /\ recon' = "none"
    /\ UNCHANGED << pc, tables, ledger, marks >>
    /\ tables0' = tables
    /\ FixedUnchanged

\* The ledger has no entry for the file: process_file is called.
BeginFile ==
    /\ pc = "idle"
    /\ \E d \in Directories, f \in FileNames : \E rows \in FileContents[f] :
         /\ ~is_processed(processed_files, d, f)
         /\ cur' = [directory |-> d, filename |-> f, rows |-> rows]
    /\ pc' = "process_file"
    /\ outcome' = "running"
    /\ file_type' = NoType
    /\ temp_exists' = FALSE
    /\ utf8_file' = FALSE
    /\ utf8_rows' = <<>>
    /\ df' = <<>>
    /\ sample_df' = <<>>
    /\ offset' = 0
    /\ batch_num' = 0
    /\ total_processed' = 0
    /\ reads' = <<>>
    /\ upserts' = <<>>
    /\ raised' = "none"
    /\ ret' = NoRet
    /\ recon' = "none"
    /\ UNCHANGED << tables, ledger, marks >>
    /\ tables0' = tables
    /\ FixedUnchanged

(***************************************************************************)
(* Processor.process_file, up to the strategy choice                       *)
(***************************************************************************)
\* line 404: the stat of the input file fails
PF_StatFail ==
    /\ pc = "process_file"
    /\ Raise("stat_file")
    /\ UNCHANGED << tables, ledger, marks, cur, file_type, temp_exists, utf8_file,
                    utf8_rows, df, offset, batch_num, total_processed, reads,
                    upserts, ret, outcome, recon >>
    /\ ConfigUnchanged

\* lines 410-412: no marker in the name
PF_UnknownType ==
    /\ pc = "process_file"
    /\ get_file_type(cur.filename) = NoType
    /\ Raise("ValueError")
    /\ UNCHANGED << tables, ledger, marks, cur, file_type, temp_exists, utf8_file,
                    utf8_rows, df, offset, batch_num, total_processed, reads,
                    upserts, ret, outcome, recon >>
    /\ ConfigUnchanged

\* lines 410-417: the category is resolved, the converter is called
PF_TypeOk ==
    /\ pc = "process_file"
    /\ get_file_type(cur.filename) # NoType
    /\ file_type' = get_file_type(cur.filename)
    /\ pc' = "convert"
    /\ UNCHANGED << tables, ledger, marks, cur, temp_exists, utf8_file, utf8_rows,
                    df, offset, batch_num, total_processed, reads, upserts,
                    raised, ret, outcome, recon >>
    /\ ConfigUnchanged

(***************************************************************************)
(* Processor._convert_file_encoding_chunked                                *)
(***************************************************************************)
\* lines 174-179: mkstemp creates the output file, then the stat of the input
\* raises outside the try block
Conv_StatFail ==
    /\ pc = "convert"
    /\ temp_exists' = TRUE
    /\ Raise("stat_input")
    /\ UNCHANGED << tables, ledger, marks, cur, file_type, utf8_file, utf8_rows, df,
                    offset, batch_num, total_processed, reads, upserts, ret,
                    outcome, recon >>
    /\ ConfigUnchanged

\* line 175: tempfile.mkstemp raises, no output file has been created
Conv_MkstempFail ==
    /\ pc = "convert"
    /\ Raise("mkstemp")
    /\ UNCHANGED << tables, ledger, marks, cur, file_type, temp_exists, utf8_file,
                    utf8_rows, df, offset, batch_num, total_processed, reads,
                    upserts, ret, outcome, recon >>
    /\ ConfigUnchanged

\* line 177: os.close of the descriptor raises, the file mkstemp created stays
Conv_CloseFail ==
    /\ pc = "convert"
    /\ temp_exists' = TRUE
    /\ Raise("os_close")
    /\ UNCHANGED << tables, ledger, marks, cur, file_type, utf8_file, utf8_rows, df,
                    offset, batch_num, total_processed, reads, upserts, ret,
                    outcome, recon >>
    /\ ConfigUnchanged

\* lines 174-187: the output file is created and the input's size is read
Conv_Create ==
    /\ pc = "convert"
    /\ temp_exists' = TRUE
    /\ pc' = "conv_open"
    /\ UNCHANGED << tables, ledger, marks, cur, file_type, utf8_file, utf8_rows, df,
                    offset, batch_num, total_processed, reads, upserts, raised,
                    ret, outcome, recon >>
    /\ ConfigUnchanged

\* lines 225-229: the except clause deletes the output file and re-raises e;
\* when exists() or unlink() of lines 227-228 raises, that exception leaves
\* the converter instead and the output file stays, with what was written
Conv_Except(e) ==
    /\ \/ /\ temp_exists' = FALSE
          /\ utf8_rows' = <<>>
          /\ Raise(e)
       \/ /\ Raise("cleanup")
          /\ UNCHANGED << temp_exists, utf8_rows >>
    /\ UNCHANGED << tables, ledger, marks, cur, file_type, utf8_file, df, offset,
                    batch_num, total_processed, reads, upserts, ret, outcome, recon >>
    /\ ConfigUnchanged

\* lines 190-195: opening the input fails
Conv_OpenInFail ==
    /\ pc = "conv_open"
    /\ Conv_Except("open_input")

\* lines 196-201: opening the output fails
Conv_OpenOutFail ==
    /\ pc = "conv_open"
    /\ Conv_Except("open_output")

\* lines 190-201: both files are open
Conv_Open ==
    /\ pc = "conv_open"
    /\ pc' = "conv_copy"
    /\ UNCHANGED << tables, ledger, marks, cur, file_type, temp_exists, utf8_file,
                    utf8_rows, df, offset, batch_num, total_processed, reads,
                    upserts, raised, ret, outcome, recon >>
    /\ ConfigUnchanged

\* line 204: a read of the input fails
Conv_ReadFail ==
    /\ pc = "conv_copy"
    /\ Conv_Except("read")

\* line 208: a write to the output fails
Conv_WriteFail ==
    /\ pc = "conv_copy"
    /\ infile_read(cur.rows, Len(utf8_rows), encoding_chunk_size) # <<>>
    /\ Conv_Except("write")

\* lines 203-209: one buffer is read and written
Conv_Copy ==
    /\ pc = "conv_copy"
    /\ LET chunk == infile_read(cur.rows, Len(utf8_rows), encoding_chunk_size)
       IN  /\ chunk # <<>>
           /\ utf8_rows' = utf8_rows \o chunk
    /\ UNCHANGED << pc, tables, ledger, marks, cur, file_type, temp_exists,
                    utf8_file, df, offset, batch_num, total_processed, reads,
                    upserts, raised, ret, outcome, recon >>
    /\ ConfigUnchanged

\* line 219: the stat of the finished output fails; the clean-up finds the
\* file gone or deletes it, or fails itself (exists() raises as stat did)
Conv_StatOutFail ==
    /\ pc = "conv_copy"
    /\ infile_read(cur.rows, Len(utf8_rows), encoding_chunk_size) = <<>>
    /\ Conv_Except("stat_output")

\* lines 205-223 and 417: end of input, the path of the output is returned
\* and assigned to utf8_file
Conv_Return ==
    /\ pc = "conv_copy"
    /\ infile_read(cur.rows, Len(utf8_rows), encoding_chunk_size) = <<>>
    /\ utf8_file' = TRUE
    /\ pc' = "pf_size"
    /\ UNCHANGED << tables, ledger, marks, cur, file_type, temp_exists, utf8_rows,
                    df, offset, batch_num, total_processed, reads, upserts,
                    raised, ret, outcome, recon >>
    /\ ConfigUnchanged

(***************************************************************************)
(* Processor.process_file: strategy choice and whole-file path             *)
(***************************************************************************)
\* line 424: the stat of the converted file fails
PF_SizeFail ==
    /\ pc = "pf_size"
    /\ Raise("stat_utf8")
    /\ UNCHANGED << tables, ledger, marks, cur, file_type, temp_exists, utf8_file,
                    utf8_rows, df, offset, batch_num, total_processed, reads,
                    upserts, ret, outcome, recon >>
    /\ ConfigUnchanged

\* a choice that also sends a file of exactly the threshold's size to the
\* chunked loader
PF_ChooseChunkedAtLeast ==
    /\ pc = "pf_size"
    /\ get_file_size_mb(utf8_rows) >= max_file_size_mb
    /\ pc' = "chunk_sample"
    /\ UNCHANGED << tables, ledger, marks, cur, file_type, temp_exists, utf8_file,
                    utf8_rows, df, offset, batch_num, total_processed, reads,
                    upserts, raised, ret, outcome, recon >>
    /\ ConfigUnchanged

\* lines 424-433: the converted file is larger than the threshold
PF_ChooseChunked ==
    /\ pc = "pf_size"
    /\ get_file_size_mb(utf8_rows) > max_file_size_mb
    /\ pc' = "chunk_sample"
    /\ UNCHANGED << tables, ledger, marks, cur, file_type, temp_exists, utf8_file,
                    utf8_rows, df, offset, batch_num, total_processed, reads,
                    upserts, raised, ret, outcome, recon >>
    /\ ConfigUnchanged

\* lines 424-437: the converted file is not larger than the threshold
PF_ChooseWhole ==
    /\ pc = "pf_size"
    /\ ~(get_file_size_mb(utf8_rows) > max_file_size_mb)
    /\ pc' = "whole_read"
    /\ UNCHANGED << tables, ledger, marks, cur, file_type, temp_exists, utf8_file,
                    utf8_rows, df, offset, batch_num, total_processed, reads,
                    upserts, raised, ret, outcome, recon >>
    /\ ConfigUnchanged

\* lines 440-449: read_csv of the whole file raises
Whole_ReadFail ==
    /\ pc = "whole_read"
    /\ Raise("read_csv")
    /\ UNCHANGED << tables, ledger, marks, cur, file_type, temp_exists, utf8_file,
                    utf8_rows, df, offset, batch_num, total_processed, reads,
                    upserts, ret, outcome, recon >>
    /\ ConfigUnchanged

\* line 452 (538-540): _apply_transformations raises
Whole_TransformFail ==
    /\ pc = "whole_read"
    /\ Raise("transform")
    /\ UNCHANGED << tables, ledger, marks, cur, file_type, temp_exists, utf8_file,
                    utf8_rows, df, offset, batch_num, total_processed, reads,
                    upserts, ret, outcome, recon >>
    /\ ConfigUnchanged

\* lines 440-449, 469-472: the file holds no row, the read raises NoDataError
Whole_ReadNoData ==
    /\ pc = "whole_read"
    /\ read_csv(utf8_rows, 0, Len(utf8_rows)).raises = NoDataError
    /\ Raise(NoDataError)
    /\ UNCHANGED << tables, ledger, marks, cur, file_type, temp_exists, utf8_file,
                    utf8_rows, df, offset, batch_num, total_processed, reads,
                    upserts, ret, outcome, recon >>
    /\ ConfigUnchanged

\* lines 440-457: the whole file is read and transformed
Whole_ReadTransform ==
    /\ pc = "whole_read"
    /\ LET read == read_csv(utf8_rows, 0, Len(utf8_rows))
       IN  /\ read.raises = "none"
           /\ df' = apply_transformations(read.df, file_type)
    /\ pc' = "whole_enhance"
    /\ UNCHANGED << tables, ledger, marks, cur, file_type, temp_exists, utf8_file,
                    utf8_rows, offset, batch_num, total_processed, reads,
                    upserts, raised, ret, outcome, recon >>
    /\ ConfigUnchanged

\* line 467: return df, table_name
Whole_Return(batch, r) ==
    /\ df' = batch
    /\ recon' = r
    /\ ret' = [kind |-> "pair", df |-> batch, table_name |-> table_name]
    /\ pc' = "pf_finally"
    /\ UNCHANGED << tables, ledger, marks, cur, file_type, temp_exists, utf8_file,
                    utf8_rows, offset, batch_num, total_processed, reads,
                    upserts, raised, outcome >>
    /\ ConfigUnchanged

\* lines 387-388, 460-467: the category has no reference enhancement
Whole_NoEnhancement ==
    /\ pc = "whole_enhance"
    /\ file_type \notin DOMAIN REFERENCE_ENHANCEMENTS
    /\ Whole_Return(df, "not_enhanced")

\* lines 246, 296-300: ReferenceDataManager cannot be imported
Whole_EnhanceImportError ==
    /\ pc = "whole_enhance"
    /\ file_type \in DOMAIN REFERENCE_ENHANCEMENTS
    /\ Whole_Return(df, "import_error")

\* an enhancement without the except clause: the source's error travels up
Whole_EnhanceSourceRaises ==
    /\ pc = "whole_enhance"
    /\ file_type \in DOMAIN REFERENCE_ENHANCEMENTS
    /\ Len(df) > 0
    /\ recon' = "source_error"
    /\ Raise("source")
    /\ UNCHANGED << tables, ledger, marks, cur, file_type, temp_exists, utf8_file,
                    utf8_rows, df, offset, batch_num, total_processed, reads,
                    upserts, ret, outcome >>
    /\ ConfigUnchanged

\* lines 268, 301-303: the reconciliation source raises
Whole_EnhanceSourceFail ==
    /\ pc = "whole_enhance"
    /\ file_type \in DOMAIN REFERENCE_ENHANCEMENTS
    /\ Len(df) > 0
    /\ Whole_Return(df, "source_error")

\* lines 250-294: the missing codes are appended to the batch
Whole_Enhance ==
    /\ pc = "whole_enhance"
    /\ file_type \in DOMAIN REFERENCE_ENHANCEMENTS
    /\ Len(df) > 0
    /\ Whole_Return(enhance_df(df, external), "done")

(***************************************************************************)
(* Processor._process_large_file_chunked                                   *)
(***************************************************************************)
\* lines 552-571, 644-646: the adapter or the sample read raises
Chunk_SampleFail ==
    /\ pc = "chunk_sample"
    /\ Raise("sample")
    /\ UNCHANGED << tables, ledger, marks, cur, file_type, temp_exists, utf8_file,
                    utf8_rows, df, offset, batch_num, total_processed, reads,
                    upserts, ret, outcome, recon >>
    /\ ConfigUnchanged

\* lines 558-567, 644-646: the file holds no row, the read of the sample
\* raises NoDataError
Chunk_SampleNoData ==
    /\ pc = "chunk_sample"
    /\ read_csv(utf8_rows, 0, SampleRows).raises = NoDataError
    /\ Raise(NoDataError)
    /\ UNCHANGED << tables, ledger, marks, cur, file_type, temp_exists, utf8_file,
                    utf8_rows, df, offset, batch_num, total_processed, reads,
                    upserts, ret, outcome, recon >>
    /\ ConfigUnchanged

\* a loader that starts behind a header line
Chunk_SampleOffsetOne ==
    /\ pc = "chunk_sample"
    /\ LET sample == read_csv(utf8_rows, 0, SampleRows)
       IN  /\ sample.raises = "none"
           /\ sample_df' = apply_transformations(sample.df, file_type)
    /\ offset' = 1
    /\ batch_num' = 0
    /\ total_processed' = 0
    /\ pc' = "chunk_read"
    /\ UNCHANGED << tables, ledger, marks, cur, file_type, temp_exists,
                    utf8_file, utf8_rows, df, reads, upserts, raised, ret,
                    outcome, recon >>
    /\ SettingsUnchanged

\* lines 558-579: the sample (the first 100 rows at most) is read and
\* transformed into sample_df, which stays bound until the loader returns;
\* the counters are set
Chunk_Sample ==
    /\ pc = "chunk_sample"
    /\ LET sample == read_csv(utf8_rows, 0, SampleRows)
       IN  /\ sample.raises = "none"
           /\ sample_df' = apply_transformations(sample.df, file_type)
    /\ offset' = 0
    /\ batch_num' = 0
    /\ total_processed' = 0
    /\ pc' = "chunk_read"
    /\ UNCHANGED << tables, ledger, marks, cur, file_type, temp_exists, utf8_file,
                    utf8_rows, df, reads, upserts, raised, ret, outcome, recon >>
    /\ SettingsUnchanged

\* one entry of the log of windows read
ReadEntry(chunk) ==
    [skip_rows |-> offset, n_rows |-> chunk_size, got |-> Len(chunk)]

\* lines 582-597, 644-646: the read of a window raises
Chunk_ReadFail ==
    /\ pc = "chunk_read"
    /\ batch_num' = batch_num + 1
    /\ Raise("read_window")
    /\ UNCHANGED << tables, ledger, marks, cur, file_type, temp_exists, utf8_file,
                    utf8_rows, df, offset, total_processed, reads, upserts,
                    ret, outcome, recon >>
    /\ ConfigUnchanged

\* lines 582-597, 644-646: no row is left behind the offset (the file's
\* length is a multiple of chunk_size and every row was read), the read
\* raises NoDataError and the loader raises it again
Chunk_ReadNoData ==
    /\ pc = "chunk_read"
    /\ read_csv(utf8_rows, offset, chunk_size).raises = NoDataError
    /\ batch_num' = batch_num + 1
    /\ Raise(NoDataError)
    /\ UNCHANGED << tables, ledger, marks, cur, file_type, temp_exists, utf8_file,
                    utf8_rows, df, offset, total_processed, reads, upserts,
                    ret, outcome, recon >>
    /\ ConfigUnchanged

\* lines 582-600: a window is read into chunk_df; a read that returns has at
\* least one row, so that the test of line 599 never leaves the loop
Chunk_Read ==
    /\ pc = "chunk_read"
    /\ LET chunk_df == read_csv(utf8_rows, offset, chunk_size)
       IN  /\ chunk_df.raises = "none"
           /\ ~(Len(chunk_df.df) = 0)
           /\ reads' = Append(reads, ReadEntry(chunk_df.df))
           /\ df' = chunk_df.df
    /\ batch_num' = batch_num + 1
    /\ pc' = "chunk_load"
    /\ UNCHANGED << tables, ledger, marks, cur, file_type, temp_exists, utf8_file,
                    utf8_rows, offset, total_processed, upserts, raised, ret,
                    outcome, recon >>
    /\ ConfigUnchanged

\* lines 603, 644-646: the transformation of the window raises
Chunk_TransformFail ==
    /\ pc = "chunk_load"
    /\ Raise("transform")
    /\ UNCHANGED << tables, ledger, marks, cur, file_type, temp_exists, utf8_file,
                    utf8_rows, df, offset, batch_num, total_processed, reads,
                    upserts, ret, outcome, recon >>
    /\ ConfigUnchanged

\* a loader that logs the failed bulk upsert of a window and carries on
Chunk_UpsertFailSwallowed ==
    /\ pc = "chunk_load"
    /\ total_processed' = total_processed + Len(df)
    /\ offset' = offset + Len(df)
    /\ df' = <<>>
    /\ pc' = IF (offset + Len(df)) % chunk_size # 0
             THEN "chunk_enhance" ELSE "chunk_read"
    /\ UNCHANGED << tables, ledger, marks, cur, file_type, temp_exists, utf8_file,
                    utf8_rows, batch_num, reads, upserts, raised, ret, outcome,
                    recon >>
    /\ ConfigUnchanged

\* lines 603-609, 644-646: the bulk upsert of the window raises
Chunk_UpsertFail ==
    /\ pc = "chunk_load"
    /\ df' = apply_transformations(df, file_type)
    /\ Raise("bulk_upsert")
    /\ UNCHANGED << tables, ledger, marks, cur, file_type, temp_exists, utf8_file,
                    utf8_rows, offset, batch_num, total_processed, reads,
                    upserts, ret, outcome, recon >>
    /\ ConfigUnchanged

\* a loop that stops after every full window instead of after a short one
end_of_file_inverted(off, size) == off % size = 0

\* line 628: the end-of-file test after a window
end_of_file(off, size) == off % size # 0

\* one entry of the log of bulk_upsert calls that committed
UpsertEntry(who, first, rows) ==
    [by |-> who, table |-> table_name, first |-> first, rows |-> rows]

\* a loader that moves on to the next window with the upsert of this one
\* still to be done
Chunk_LoadUncommitted ==
    /\ pc = "chunk_load"
    /\ total_processed' = total_processed + Len(df)
    /\ offset' = offset + Len(df)
    /\ df' = apply_transformations(df, file_type)
    /\ pc' = IF end_of_file(offset', chunk_size)
             THEN "chunk_enhance" ELSE "chunk_read"
    /\ UNCHANGED << tables, ledger, marks, cur, file_type, temp_exists,
                    utf8_file, utf8_rows, batch_num, reads, upserts, raised,
                    ret, outcome, recon >>
    /\ ConfigUnchanged

\* lines 603-629: the window is transformed and upserted, the counters move
\* on, the chunk is dropped and the loop goes on or is left
Chunk_Load ==
    /\ pc = "chunk_load"
    /\ LET chunk_df == apply_transformations(df, file_type)
       IN  /\ tables' = [tables EXCEPT
                  ![table_name] = bulk_upsert(tables[table_name], chunk_df)]
           /\ upserts' = Append(upserts, UpsertEntry("window", offset, chunk_df))
           /\ total_processed' = total_processed + Len(chunk_df)
           /\ offset' = offset + Len(chunk_df)
    /\ df' = <<>>
    /\ pc' = IF end_of_file(offset', chunk_size)
             THEN "chunk_enhance" ELSE "chunk_read"
    /\ UNCHANGED << ledger, marks, cur, file_type, temp_exists, utf8_file, utf8_rows,
                    batch_num, reads, raised, ret, outcome, recon >>
    /\ ConfigUnchanged

\* line 642: return None
Chunk_Return(r) ==
    /\ recon' = r
    /\ ret' = [kind |-> "None"]
    /\ pc' = "pf_finally"
    /\ UNCHANGED << ledger, marks, cur, file_type, temp_exists, utf8_file, utf8_rows,
                    df, offset, batch_num, total_processed, reads, raised,
                    outcome >>
    /\ ConfigUnchanged

\* lines 387-388: the category has no reference enhancement
Chunk_NoEnhancement ==
    /\ pc = "chunk_enhance"
    /\ total_processed > 0
    /\ file_type \notin DOMAIN REFERENCE_ENHANCEMENTS
    /\ Chunk_Return("not_enhanced")
    /\ UNCHANGED << tables, upserts >>

\* lines 246, 296-300: ReferenceDataManager cannot be imported
Chunk_EnhanceImportError ==
    /\ pc = "chunk_enhance"
    /\ total_processed > 0
    /\ file_type \in DOMAIN REFERENCE_ENHANCEMENTS
    /\ Chunk_Return("import_error")
    /\ UNCHANGED << tables, upserts >>

\* lines 260-262, 301-303: the query of the existing codes raises
Chunk_EnhanceQueryFail ==
    /\ pc = "chunk_enhance"
    /\ total_processed > 0
    /\ file_type \in DOMAIN REFERENCE_ENHANCEMENTS
    /\ Chunk_Return("query_error")
    /\ UNCHANGED << tables, upserts >>

\* lines 268, 301-303: the reconciliation source raises
Chunk_EnhanceSourceFail ==
    /\ pc = "chunk_enhance"
    /\ total_processed > 0
    /\ file_type \in DOMAIN REFERENCE_ENHANCEMENTS
    /\ Chunk_Return("source_error")
    /\ UNCHANGED << tables, upserts >>

\* lines 283, 301-303: the bulk upsert of the missing codes raises; the
\* except clause logs the error and returns
Chunk_EnhanceUpsertFail ==
    /\ pc = "chunk_enhance"
    /\ total_processed > 0
    /\ file_type \in DOMAIN REFERENCE_ENHANCEMENTS
    /\ Len(diff_data(external, existing_codes_db(tables[table_name]))) > 0
    /\ Chunk_Return("upsert_error")
    /\ UNCHANGED << tables, upserts >>

\* lines 283-288, 301-303: the missing codes are upserted and committed, then
\* the count query raises; the except clause logs the error and returns
Chunk_EnhanceCountFail ==
    /\ pc = "chunk_enhance"
    /\ total_processed > 0
    /\ file_type \in DOMAIN REFERENCE_ENHANCEMENTS
    /\ LET missing_df ==
               diff_data(external, existing_codes_db(tables[table_name]))
       IN  /\ Len(missing_df) > 0
           /\ tables' = [tables EXCEPT
                  ![table_name] = enhance_db(tables[table_name], external)]
           /\ upserts' = Append(upserts, UpsertEntry("reconcile", 0, missing_df))
    /\ Chunk_Return("count_error")

\* lines 255-294, 636-642: the missing codes are upserted into the table
Chunk_Enhance ==
    /\ pc = "chunk_enhance"
    /\ total_processed > 0
    /\ file_type \in DOMAIN REFERENCE_ENHANCEMENTS
    /\ LET missing_df ==
               diff_data(external, existing_codes_db(tables[table_name]))
       IN  /\ tables' = [tables EXCEPT
                  ![table_name] = enhance_db(tables[table_name], external)]
           /\ upserts' = IF Len(missing_df) > 0
                         THEN Append(upserts,
                                     UpsertEntry("reconcile", 0, missing_df))
                         ELSE upserts
    /\ Chunk_Return("done")

(***************************************************************************)
(* Processor.process_file: the finally clause                              *)
(***************************************************************************)
\* line 475: no converted file to delete
PF_FinallyNoFile ==
    /\ pc = "pf_finally"
    /\ ~(utf8_file /\ temp_exists)
    /\ pc' = "pf_exit"
    /\ UNCHANGED << tables, ledger, marks, cur, file_type, temp_exists, utf8_file,
                    utf8_rows, df, offset, batch_num, total_processed, reads,
                    upserts, raised, ret, outcome, recon >>
    /\ ConfigUnchanged

\* lines 475-478: the converted file is deleted
PF_FinallyUnlink ==
    /\ pc = "pf_finally"
    /\ utf8_file /\ temp_exists
    /\ temp_exists' = FALSE
    /\ pc' = "pf_exit"
    /\ UNCHANGED << tables, ledger, marks, cur, file_type, utf8_file, utf8_rows, df,
                    offset, batch_num, total_processed, reads, upserts, raised,
                    ret, outcome, recon >>
    /\ ConfigUnchanged

\* lines 475-480: unlink raises, a warning is logged
PF_FinallyUnlinkFail ==
    /\ pc = "pf_finally"
    /\ utf8_file /\ temp_exists
    /\ pc' = "pf_exit"
    /\ UNCHANGED << tables, ledger, marks, cur, file_type, temp_exists, utf8_file,
                    utf8_rows, df, offset, batch_num, total_processed, reads,
                    upserts, raised, ret, outcome, recon >>
    /\ ConfigUnchanged

\* line 475: utf8_file.exists() raises outside the inner try: the exception
\* leaves process_file in place of its return value or of the exception
\* that was travelling, and the converted file stays
PF_FinallyExistsFail ==
    /\ pc = "pf_finally"
    /\ utf8_file
    /\ raised' = "finally_exists"
    /\ ret' = NoRet
    /\ pc' = "pf_exit"
    /\ UNCHANGED << tables, ledger, marks, cur, file_type, temp_exists, utf8_file,
                    utf8_rows, df, offset, batch_num, total_processed, reads,
                    upserts, outcome, recon >>
    /\ ConfigUnchanged

(***************************************************************************)
(* Per-file orchestration after process_file                               *)
(***************************************************************************)
\* process_file raised: the error is logged, the file has failed
Caller_Raised ==
    /\ pc = "pf_exit"
    /\ raised # "none"
    /\ outcome' = "failed"
    /\ pc' = "file_end"
    /\ UNCHANGED << tables, ledger, marks, cur, file_type, temp_exists, utf8_file,
                    utf8_rows, df, offset, batch_num, total_processed, reads,
                    upserts, raised, ret, recon >>
    /\ ConfigUnchanged

\* the bulk upsert of the returned batch raises: the file has failed
Caller_UpsertFail ==
    /\ pc = "pf_exit"
    /\ raised = "none"
    /\ ret.kind = "pair"
    /\ raised' = "caller_bulk_upsert"
    /\ outcome' = "failed"
    /\ pc' = "file_end"
    /\ UNCHANGED << tables, ledger, marks, cur, file_type, temp_exists, utf8_file,
                    utf8_rows, df, offset, batch_num, total_processed, reads,
                    upserts, ret, recon >>
    /\ ConfigUnchanged

\* the returned batch is upserted into its table
Caller_Upsert ==
    /\ pc = "pf_exit"
    /\ raised = "none"
    /\ ret.kind = "pair"
    /\ tables' = [tables EXCEPT
           ![ret.table_name] = bulk_upsert(tables[ret.table_name], ret.df)]
    /\ upserts' = Append(upserts, UpsertEntry("caller", 0, ret.df))
    /\ pc' = "mark"
    /\ UNCHANGED << ledger, marks, cur, file_type, temp_exists, utf8_file, utf8_rows,
                    df, offset, batch_num, total_processed, reads, raised, ret,
                    outcome, recon >>
    /\ ConfigUnchanged

\* the chunked path has loaded the file itself
Caller_Chunked ==
    /\ pc = "pf_exit"
    /\ raised = "none"
    /\ ret.kind = "None"
    /\ pc' = "mark"
    /\ UNCHANGED << tables, ledger, marks, cur, file_type, temp_exists, utf8_file,
                    utf8_rows, df, offset, batch_num, total_processed, reads,
                    upserts, raised, ret, outcome, recon >>
    /\ ConfigUnchanged

\* the file is recorded in the ledger
Caller_Mark ==
    /\ pc = "mark"
    /\ \E now \in CURRENT_TIMESTAMP :
         ledger' = mark_processed(processed_files, cur.directory,
                                  cur.filename, now)
    /\ marks' = marks \cup { << cur.directory, cur.filename >> }
    /\ outcome' = "ok"
    /\ pc' = "file_end"
    /\ UNCHANGED << tables, cur, file_type, temp_exists, utf8_file, utf8_rows,
                    df, offset, batch_num, total_processed, reads, upserts,
                    raised, ret, recon >>
    /\ ConfigUnchanged

\* the orchestration moves on to the next file; the locals of the finished
\* file are gone
Caller_Next ==
    /\ pc = "file_end"
    /\ pc' = "idle"
    /\ cur' = NoFile
    /\ file_type' = NoType
    /\ temp_exists' = FALSE
    /\ utf8_file' = FALSE
    /\ utf8_rows' = <<>>
    /\ df' = <<>>
    /\ sample_df' = <<>>
    /\ offset' = 0
    /\ batch_num' = 0
    /\ total_processed' = 0
    /\ reads' = <<>>
    /\ upserts' = <<>>
    /\ raised' = "none"
    /\ ret' = NoRet
    /\ recon' = "none"
    /\ UNCHANGED << tables, ledger, marks, outcome >>
    /\ tables0' = tables
    /\ FixedUnchanged

(***************************************************************************)
(* Specification                                                           *)
(***************************************************************************)
Next ==
    \/ SkipProcessed
    \/ BeginFile
    \/ PF_StatFail
    \/ PF_UnknownType
    \/ PF_TypeOk
    \/ Conv_StatFail
    \/ Conv_MkstempFail
    \/ Conv_CloseFail
    \/ Conv_Create
    \/ Conv_OpenInFail
    \/ Conv_OpenOutFail
    \/ Conv_Open
    \/ Conv_ReadFail
    \/ Conv_WriteFail
    \/ Conv_Copy
    \/ Conv_StatOutFail
    \/ Conv_Return
    \/ PF_SizeFail
    \/ PF_ChooseChunked
    \/ PF_ChooseWhole
    \/ Whole_ReadFail
    \/ Whole_TransformFail
    \/ Whole_ReadNoData
    \/ Whole_ReadTransform
    \/ Whole_NoEnhancement
    \/ Whole_EnhanceImportError
    \/ Whole_EnhanceSourceFail
    \/ Whole_Enhance
    \/ Chunk_SampleFail
    \/ Chunk_SampleNoData
    \/ Chunk_Sample
    \/ Chunk_ReadFail
    \/ Chunk_ReadNoData
    \/ Chunk_Read
    \/ Chunk_TransformFail
    \/ Chunk_UpsertFail
    \/ Chunk_Load
    \/ Chunk_NoEnhancement
    \/ Chunk_EnhanceImportError
    \/ Chunk_EnhanceQueryFail
    \/ Chunk_EnhanceSourceFail
    \/ Chunk_EnhanceUpsertFail
    \/ Chunk_EnhanceCountFail
    \/ Chunk_Enhance
    \/ PF_FinallyNoFile
    \/ PF_FinallyUnlink
    \/ PF_FinallyUnlinkFail
    \/ PF_FinallyExistsFail
    \/ Caller_Raised
    \/ Caller_UpsertFail
    \/ Caller_Upsert
    \/ Caller_Chunked
    \/ Caller_Mark
    \/ Caller_Next

Spec == Init /\ [][Next]_vars

(***************************************************************************)
(* The ledger on its own: any sequence of mark_processed calls on one      *)
(* adapter, over two directories                                           *)
(***************************************************************************)
LedgerDirectories == {"2024-01", "2024-02"}

LedgerInit ==
    /\ pc = "ledger"
    /\ chunk_size = 1
    /\ max_file_size_mb = MaxRows
    /\ external = <<>>
    /\ tables = [t \in TableNames |-> {}]
    /\ tables0 = tables
    /\ ledger = {}
    /\ marks = {}
    /\ db_file \in {":memory:", "file"}
    /\ tracking_table = TRUE
    /\ cur = NoFile
    /\ file_type = NoType
    /\ temp_exists = FALSE
    /\ utf8_file = FALSE
    /\ utf8_rows = <<>>
    /\ df = <<>>
    /\ sample_df = <<>>
    /\ offset = 0
    /\ batch_num = 0
    /\ total_processed = 0
    /\ reads = <<>>
    /\ upserts = <<>>
    /\ raised = "none"
    /\ ret = NoRet
    /\ outcome = "none"
    /\ recon = "none"

\* lines 89-98: db.mark_processed(directory, filename) at a time now; ret and
\* outcome record the call and whether the row was new
Ledger_Mark ==
    /\ pc = "ledger"
    /\ tracking_table
    /\ \E d \in LedgerDirectories, f \in FileNames, now \in CURRENT_TIMESTAMP :
         /\ ledger' = mark_processed(processed_files, d, f, now)
         /\ marks' = marks \cup { << d, f >> }
         /\ cur' = [directory |-> d, filename |-> f, rows |-> <<>>]
         /\ ret' = [kind |-> "mark_processed", now |-> now]
         /\ outcome' = IF is_processed(processed_files, d, f)
                       THEN "ignored" ELSE "inserted"
    /\ raised' = "none"
    /\ UNCHANGED << pc, tables, file_type, temp_exists, utf8_file, utf8_rows, df,
                    offset, batch_num, total_processed, reads, upserts, recon >>
    /\ ConfigUnchanged

\* lines 91-96: the database has no table processed_files, the INSERT raises
\* sqlite3.OperationalError
Ledger_MarkNoTable ==
    /\ pc = "ledger"
    /\ ~tracking_table
    /\ \E d \in LedgerDirectories, f \in FileNames :
         cur' = [directory |-> d, filename |-> f, rows |-> <<>>]
    /\ raised' = "OperationalError"
    /\ ret' = NoRet
    /\ outcome' = "error"
    /\ UNCHANGED << pc, tables, ledger, marks, file_type, temp_exists, utf8_file,
                    utf8_rows, df, offset, batch_num, total_processed, reads,
                    upserts, recon >>
    /\ ConfigUnchanged

\* lines 100-110: db.is_processed(directory, filename) answers
Ledger_IsProcessed ==
    /\ pc = "ledger"
    /\ tracking_table
    /\ \E d \in LedgerDirectories, f \in FileNames :
         /\ cur' = [directory |-> d, filename |-> f, rows |-> <<>>]
         /\ ret' = [kind |-> "is_processed",
                    value |-> is_processed(processed_files, d, f)]
    /\ raised' = "none"
    /\ outcome' = "answered"
    /\ UNCHANGED << pc, tables, ledger, marks, file_type, temp_exists, utf8_file,
                    utf8_rows, df, offset, batch_num, total_processed, reads,
                    upserts, recon >>
    /\ ConfigUnchanged

\* lines 102-107: the database has no table processed_files, the SELECT of
\* is_processed raises sqlite3.OperationalError
Ledger_IsProcessedNoTable ==
    /\ pc = "ledger"
    /\ ~tracking_table
    /\ \E d \in LedgerDirectories, f \in FileNames :
         /\ cur' = [directory |-> d, filename |-> f, rows |-> <<>>]
         /\ is_processed(processed_files, d, f) = OperationalError
    /\ raised' = "OperationalError"
    /\ ret' = NoRet
    /\ outcome' = "error"
    /\ UNCHANGED << pc, tables, ledger, marks, file_type, temp_exists, utf8_file,
                    utf8_rows, df, offset, batch_num, total_processed, reads,
                    upserts, recon >>
    /\ ConfigUnchanged

\* lines 77-87: db.get_processed_files(directory) answers
Ledger_GetProcessedFiles ==
    /\ pc = "ledger"
    /\ tracking_table
    /\ \E d \in LedgerDirectories :
         /\ cur' = [directory |-> d, filename |-> <<>>, rows |-> <<>>]
         /\ ret' = [kind |-> "get_processed_files",
                    value |-> get_processed_files(processed_files, d)]
    /\ raised' = "none"
    /\ outcome' = "answered"
    /\ UNCHANGED << pc, tables, ledger, marks, file_type, temp_exists, utf8_file,
                    utf8_rows, df, offset, batch_num, total_processed, reads,
                    upserts, recon >>
    /\ ConfigUnchanged

\* lines 79-84: the database has no table processed_files, the SELECT of
\* get_processed_files raises sqlite3.OperationalError
Ledger_GetProcessedFilesNoTable ==
    /\ pc = "ledger"
    /\ ~tracking_table
    /\ \E d \in LedgerDirectories :
         /\ cur' = [directory |-> d, filename |-> <<>>, rows |-> <<>>]
         /\ get_processed_files(processed_files, d) = OperationalError
    /\ raised' = "OperationalError"
    /\ ret' = NoRet
    /\ outcome' = "error"
    /\ UNCHANGED << pc, tables, ledger, marks, file_type, temp_exists, utf8_file,
                    utf8_rows, df, offset, batch_num, total_processed, reads,
                    upserts, recon >>
    /\ ConfigUnchanged

\* lines 29-34: db.disconnect() closes the connection.  An in-memory database
\* ends with its connection, and the next call connects to a new, empty one;
\* a database file keeps its content.
Ledger_Disconnect ==
    /\ pc = "ledger"
    /\ IF db_file = ":memory:"
       THEN /\ ledger' = {}
            /\ marks' = {}
            /\ tracking_table' = FALSE
       ELSE UNCHANGED << ledger, marks, tracking_table >>
    /\ raised' = "none"
    /\ ret' = NoRet
    /\ outcome' = "disconnected"
    /\ UNCHANGED << pc, tables, cur, file_type, temp_exists, utf8_file, utf8_rows,
                    df, offset, batch_num, total_processed, reads, upserts, recon >>
    /\ UNCHANGED << chunk_size, max_file_size_mb, external, tables0, db_file,
                    sample_df >>

\* lines 36-55: db.ensure_tracking_table(), CREATE TABLE IF NOT EXISTS
Ledger_EnsureTrackingTable ==
    /\ pc = "ledger"
    /\ tracking_table' = TRUE
    /\ raised' = "none"
    /\ ret' = NoRet
    /\ outcome' = "ensured"
    /\ UNCHANGED << pc, tables, ledger, marks, cur, file_type, temp_exists,
                    utf8_file, utf8_rows, df, offset, batch_num, total_processed,
                    reads, upserts, recon >>
    /\ UNCHANGED << chunk_size, max_file_size_mb, external, tables0, db_file,
                    sample_df >>

LedgerNext ==
    \/ Ledger_Mark
    \/ Ledger_MarkNoTable
    \/ Ledger_IsProcessed
    \/ Ledger_IsProcessedNoTable
    \/ Ledger_GetProcessedFiles
    \/ Ledger_GetProcessedFilesNoTable
    \/ Ledger_Disconnect
    \/ Ledger_EnsureTrackingTable

SpecLedger == LedgerInit /\ [][LedgerNext]_vars

(***************************************************************************)
(* The Record Transformer on its own: _apply_transformations applied to a  *)
(* batch of one of the big tables                                          *)
(***************************************************************************)
\* values of capital_social: "1234,56", "1,5", "1,50", "12", "abc",
\* "1.234,56", "1,5,0" and null
NumericTexts ==
    { << "1", "2", "3", "4", ",", "5", "6" >>, << "1", ",", "5" >>,
      << "1", ",", "5", "0" >>, << "1", "2" >>, << "a", "b", "c" >>,
      << "1", ".", "2", "3", "4", ",", "5", "6" >>,
      << "1", ",", "5", ",", "0" >>, Null }

\* values of pais: "76", "7", "105", "1058", "", null, and with whitespace
\* or a sign " 76", "7 ", "  ", "-7"
PaisTexts ==
    { << "7", "6" >>, << "7" >>, << "1", "0", "5" >>, << "1", "0", "5", "8" >>,
      <<>>, Null, << " ", "7", "6" >>, << "7", " " >>, << " ", " " >>,
      << "-", "7" >> }

\* values of a date column: the sentinel "0" and a date
DateTexts == { << "0" >>, << "2", "0", "2", "0" >> }

\* a row of EMPRECSV: seven fields, capital_social the fifth
EmpresaRows ==
    { << << "1" >>, << "x" >>, << "2" >>, << "5" >>, v, << "1" >>, Null >> :
        v \in NumericTexts }

\* a row of ESTABELE cut after data_inicio_atividade: eleven fields,
\* data_situacao_cadastral the seventh, pais the tenth
EstabelecimentoRows ==
    { << << "1" >>, << "1" >>, << "1" >>, << "1" >>, Null, << "2" >>, d,
         << "0" >>, Null, v, << "2", "0", "2", "0" >> >> :
        d \in DateTexts, v \in PaisTexts }

TransformInit ==
    /\ pc = "transform"
    /\ file_type \in {"EMPRECSV", "ESTABELE"}
    /\ \E rows \in SeqsUpTo(IF file_type = "EMPRECSV" THEN EmpresaRows
                             ELSE EstabelecimentoRows, MaxRows) :
         cur = [directory |-> "None", filename |-> Chars[file_type],
                rows |-> rows]
    /\ chunk_size = 1
    /\ max_file_size_mb = MaxRows
    /\ external = <<>>
    /\ tables = [t \in TableNames |-> {}]
    /\ tables0 = tables
    /\ ledger = {}
    /\ marks = {}
    /\ db_file = ":memory:"
    /\ tracking_table = TRUE
    /\ temp_exists = FALSE
    /\ utf8_file = FALSE
    /\ utf8_rows = <<>>
    /\ df = <<>>
    /\ sample_df = <<>>
    /\ offset = 0
    /\ batch_num = 0
    /\ total_processed = 0
    /\ reads = <<>>
    /\ upserts = <<>>
    /\ raised = "none"
    /\ ret = NoRet
    /\ outcome = "none"
    /\ recon = "none"

\* df = self._apply_transformations(df, file_type)
Transform_Apply ==
    /\ pc = "transform"
    /\ df' = apply_transformations(cur.rows, file_type)
    /\ pc' = "transformed"
    /\ UNCHANGED << tables, ledger, marks, cur, file_type, temp_exists,
                    utf8_file, utf8_rows, offset, batch_num, total_processed,
                    reads, upserts, raised, ret, outcome, recon >>
    /\ ConfigUnchanged

TransformNext == Transform_Apply

SpecTransform == TransformInit /\ [][TransformNext]_vars

(***************************************************************************)
(* Vocabulary of the properties                                            *)
(***************************************************************************)
CurKey == << cur.directory, cur.filename >>

\* the primary keys of the rows of processed_files
LedgerKeys == { << r.directory, r.filename >> : r \in ledger }

\* the rows of the bulk upserts issued by the window loop, in call order
RECURSIVE WindowRows(_)
WindowRows(log) ==
    IF log = <<>> THEN <<>>
    ELSE (IF Head(log).by = "window" THEN Head(log).rows ELSE <<>>)
         \o WindowRows(Tail(log))

\* the number of rows returned by the first k window reads
RECURSIVE SumGot(_, _)
SumGot(log, k) == IF k = 0 THEN 0 ELSE SumGot(log, k - 1) + log[k].got

WindowUpserts == SelectSeq(upserts, LAMBDA u : u.by = "window")
ReconcileUpserts == SelectSeq(upserts, LAMBDA u : u.by = "reconcile")
CallerUpserts == SelectSeq(upserts, LAMBDA u : u.by = "caller")

Range(f) == { f[i] : i \in DOMAIN f }

NoDuplicateCode(rows) ==
    \A i, j \in 1..Len(rows) : i # j => rows[i].codigo # rows[j].codigo

\* the normalized file, transformed in one piece
OfficialRows == apply_transformations(utf8_rows, file_type)

\* the window loop was left through one of its two break statements
LoopFinished == pc = "chunk_enhance" \/ ret.kind = "None"

\* the exceptions that the except clauses of the enhancement swallow
ReconAbsorbed ==
    recon \in {"import_error", "source_error", "query_error", "upsert_error",
               "count_error"}

\* the reconciliation source itself failed
SourceFailed == recon \in {"import_error", "source_error"}

\* the whole-file path on a file: one transform, the reconciliation of the
\* batch, one bulk upsert of the returned batch
WholeFileBatch(content, ft, ext) ==
    LET official == apply_transformations(read_csv(content, 0, Len(content)).df, ft)
    IN  IF ft \in DOMAIN REFERENCE_ENHANCEMENTS /\ Len(official) > 0
        THEN enhance_df(official, ext)
        ELSE official

WholeFileTables(t0, content, ft, ext) ==
    [t0 EXCEPT ![FILE_MAPPINGS[ft]] =
        bulk_upsert(t0[FILE_MAPPINGS[ft]], WholeFileBatch(content, ft, ext))]

(***************************************************************************)
(* C1: a chunked load that leaves the window loop without error has read   *)
(* consecutive, non-overlapping windows of chunk_size rows starting at     *)
(* offset 0, has upserted exactly the rows each window returned, and the   *)
(* rows upserted, in order, are the rows of the normalized file, each      *)
(* once: the total equals the number of rows of the file.                  *)
(***************************************************************************)
C1_EachRowUpsertedOnce ==
    LoopFinished =>
        /\ \A i \in 1..Len(reads) :
              /\ reads[i].skip_rows = SumGot(reads, i - 1)
              /\ reads[i].n_rows = chunk_size
        /\ \A i \in 1..Len(WindowUpserts) :
              /\ WindowUpserts[i].first = reads[i].skip_rows
              /\ Len(WindowUpserts[i].rows) = reads[i].got
        /\ WindowRows(upserts) = OfficialRows
        /\ total_processed = Len(utf8_rows)

C1_Witness ==
    /\ LoopFinished
    /\ Len(WindowUpserts) >= 2
    /\ Len(utf8_rows) >= 2
    /\ utf8_rows[1] # utf8_rows[2]

(***************************************************************************)
(* C2: a load that ends without any failure leaves the destination tables  *)
(* as the whole-file path would leave them from the same starting tables:  *)
(* one transform of the file, the reconciliation of the batch, one bulk    *)
(* upsert.  Stated for every load, so for the chunked ones too.            *)
(***************************************************************************)
C2_PathsAgree ==
    (pc = "mark" /\ ~ReconAbsorbed) =>
        tables = WholeFileTables(tables0, utf8_rows, file_type, external)

(***************************************************************************)
(* C3: a file is in the ledger at the end of its load only if nothing      *)
(* failed: no exception left process_file or the load of its batch, every  *)
(* row of the file was upserted by a committed call, and the               *)
(* reconciliation step did not fail.                                       *)
(***************************************************************************)
LoadComplete ==
    /\ utf8_rows = cur.rows
    /\ \/ /\ ret.kind = "None"
          /\ WindowRows(upserts) = OfficialRows
       \/ /\ ret.kind = "pair"
          /\ Len(CallerUpserts) = 1
          /\ CallerUpserts[1].rows = ret.df
          /\ SubSeq(ret.df, 1, Len(OfficialRows)) = OfficialRows
    /\ \A i \in 1..Len(OfficialRows) :
          \E x \in tables[table_name] : x.codigo = OfficialRows[i].codigo

C3_MarkedOnlyAfterCleanLoad ==
    (pc = "file_end" /\ CurKey \in LedgerKeys) =>
        /\ raised = "none"
        /\ LoadComplete
        /\ ~ReconAbsorbed

(***************************************************************************)
(* C3, amended: a file is in the ledger at the end of its load only if no  *)
(* exception left process_file or the load of its batch, every row of the  *)
(* file was upserted by a committed call and the reconciliation step has   *)
(* returned (having added codes, found none to add, or absorbed its own    *)
(* failure); a load in which an exception travels up leaves no entry.      *)
(***************************************************************************)
C3_MarkedOnlyAfterLoad ==
    /\ (pc = "file_end" /\ CurKey \in LedgerKeys) =>
          /\ raised = "none"
          /\ LoadComplete
          /\ recon # "none"
    /\ (pc # "idle" /\ raised # "none") => CurKey \notin LedgerKeys

C3_Witness ==
    /\ pc = "file_end"
    /\ CurKey \in LedgerKeys
    /\ ret.kind = "None"
    /\ Len(WindowUpserts) >= 2
    /\ recon = "source_error"

(***************************************************************************)
(* C4: a step of the idle pipeline that takes up a file the ledger already *)
(* holds is a skip: no process_file call, no temporary file, no read, no   *)
(* bulk upsert, and the tables and the ledger stay as they are.            *)
(***************************************************************************)
C4_ProcessedFileIsNoOp ==
    [][ (pc = "idle" /\ << cur'.directory, cur'.filename >> \in LedgerKeys) =>
           /\ pc' = "idle"
           /\ outcome' = "skipped"
           /\ tables' = tables
           /\ ledger' = ledger
           /\ ~temp_exists'
           /\ utf8_rows' = <<>>
           /\ reads' = <<>>
           /\ upserts' = <<>> ]_vars

C4_Witness ==
    /\ pc = "idle"
    /\ outcome = "skipped"
    /\ CurKey \in LedgerKeys
    /\ tables[FILE_MAPPINGS[get_file_type(cur.filename)]] # {}

(***************************************************************************)
(* C5: when process_file has exited, by return or by exception, the        *)
(* temporary converted file of the input no longer exists.                 *)
(***************************************************************************)
C5_TempFileGoneOnExit ==
    pc \in {"pf_exit", "mark", "file_end"} => ~temp_exists

(***************************************************************************)
(* C6: when an I/O error of the converter (stat of the input, opening      *)
(* either file, a read, a write, stat of the output) travels up to the     *)
(* caller, the converter's output file has been deleted.                   *)
(***************************************************************************)
ConverterErrors ==
    {"os_close", "stat_input", "open_input", "open_output", "read", "write",
     "stat_output", "cleanup"}

C6_ConverterDeletesOutputOnError ==
    raised \in ConverterErrors => ~temp_exists

(***************************************************************************)
(* C7: the chunked loader terminates on every file: it never reads again   *)
(* after a window shorter than chunk_size; when the loop is left on a file *)
(* of R rows it has issued R div chunk_size + 1 reads, the full windows    *)
(* and then one last read that returns the R mod chunk_size remaining      *)
(* rows, which is the single empty window when R is a multiple of          *)
(* chunk_size, and R rows were upserted; and a load whose windows were all *)
(* read and upserted, none of them shorter than chunk_size, leaves the     *)
(* loop: its next read does not end the load with an error.                *)
(* The code does not do this: behind the last row of a file whose length   *)
(* is a multiple of chunk_size pl.read_csv raises NoDataError.             *)
(***************************************************************************)
C7_LoopStops ==
    /\ \A i \in 1..(Len(reads) - 1) : reads[i].got = chunk_size
    /\ LoopFinished =>
          LET R == Len(utf8_rows)
          IN  /\ Len(reads) = (R \div chunk_size) + 1
              /\ reads[Len(reads)].got = R % chunk_size
              /\ Cardinality({ i \in 1..Len(reads) : reads[i].got = 0 })
                    = (IF R % chunk_size = 0 THEN 1 ELSE 0)
              /\ total_processed = R
              /\ Len(WindowRows(upserts)) = R
    /\ ~(/\ raised = NoDataError
         /\ reads # <<>>
         /\ Len(utf8_rows) % chunk_size = 0
         /\ Len(WindowRows(upserts)) = Len(utf8_rows))

(***************************************************************************)
(* C8: a reconciliation that ran to its end has added exactly the codes of *)
(* the external list that were absent from the existing set (the batch on  *)
(* the whole-file path, the table on the chunked path), each once, and     *)
(* nothing else; reconciling the result again adds nothing, and the table  *)
(* holds no code twice.                                                    *)
(***************************************************************************)
C8_ReconciliationAddsMissingOnly ==
    /\ (recon = "done" /\ ret.kind = "pair") =>
          LET added == SubSeq(ret.df, Len(OfficialRows) + 1, Len(ret.df))
          IN  /\ SubSeq(ret.df, 1, Len(OfficialRows)) = OfficialRows
              /\ existing_codes_df(added)
                    = existing_codes_df(external) \ existing_codes_df(OfficialRows)
              /\ \A i \in 1..Len(added) : added[i] \in Range(external)
              /\ NoDuplicateCode(added)
              /\ enhance_df(ret.df, external) = ret.df
    /\ (recon = "done" /\ ret.kind = "None") =>
          LET before == existing_codes_db(tables0[table_name])
                           \cup existing_codes_df(WindowRows(upserts))
              added  == IF ReconcileUpserts = <<>> THEN <<>>
                        ELSE ReconcileUpserts[1].rows
          IN  /\ Len(ReconcileUpserts) <= 1
              /\ existing_codes_df(added) = existing_codes_df(external) \ before
              /\ \A i \in 1..Len(added) : added[i] \in Range(external)
              /\ NoDuplicateCode(added)
              /\ enhance_db(tables[table_name], external) = tables[table_name]
              /\ Cardinality(existing_codes_db(tables[table_name]))
                    = Cardinality(tables[table_name])

C8_Witness ==
    /\ recon = "done"
    /\ ret.kind = "pair"
    /\ Len(external) = 2
    /\ Len(ret.df) = Len(OfficialRows) + 1
    /\ Len(OfficialRows) >= 1

(***************************************************************************)
(* C9: when the reconciliation source fails (the provider cannot be        *)
(* imported, or raises), its failure does not leave the enhancement:       *)
(* process_file goes on to its finally clause with no exception and with   *)
(* its return value, and the official data is delivered unchanged: the     *)
(* returned batch is the transformed file on the whole-file path, and on   *)
(* the chunked path the table holds what the window upserts made of it.    *)
(* Only a later failure of another operation (the clean-up of the finally  *)
(* clause, the caller's upsert of the batch) can still end the file with   *)
(* an error.                                                               *)
(***************************************************************************)
C9_SourceFailureIsAbsorbed ==
    SourceFailed =>
        /\ raised \in {"none", "caller_bulk_upsert", "finally_exists"}
        /\ pc = "pf_finally" => raised = "none"
        /\ raised # "finally_exists" => ret.kind \in {"pair", "None"}
        /\ ret.kind = "pair" => ret.df = OfficialRows
        /\ (ret.kind = "None" \/ (raised = "finally_exists" /\ reads # <<>>)) =>
              /\ WindowRows(upserts) = OfficialRows
              /\ ReconcileUpserts = <<>>
              /\ tables[table_name]
                    = executemany(tables0[table_name], OfficialRows)

C9_Witness ==
    /\ recon = "source_error"
    /\ pc = "file_end"
    /\ outcome = "ok"
    /\ ret.kind = "pair"
    /\ Len(ret.df) = 2
    /\ external # <<>>

(***************************************************************************)
(* C10: a load in which a bulk_upsert call of the processor failed (for a  *)
(* window, or for the missing codes of the reconciliation) ends with an    *)
(* error: the exception leaves process_file and the file is not completed. *)
(***************************************************************************)
C10_UpsertFailureIsFatal ==
    (pc \in {"pf_exit", "mark", "file_end"}
        /\ (raised = "bulk_upsert" \/ recon = "upsert_error")) =>
        /\ raised = "bulk_upsert"
        /\ outcome # "ok"
        /\ CurKey \notin LedgerKeys

(***************************************************************************)
(* C11: the path a load is on is determined by the size of the normalized  *)
(* file and the threshold alone: it is in the chunked loader, or has       *)
(* returned from it, only if the size exceeds max_file_size_mb, and on the *)
(* whole-file path only if it does not (equal sizes included), whatever    *)
(* the tables and the ledger hold from earlier files.                      *)
(***************************************************************************)
ChunkedPositions == {"chunk_sample", "chunk_read", "chunk_load", "chunk_enhance"}
WholePositions == {"whole_read", "whole_enhance"}

C11_StrategyIsFunctionOfSize ==
    LET size == get_file_size_mb(utf8_rows)
    IN  /\ (pc \in ChunkedPositions \/ ret.kind = "None") =>
              size > max_file_size_mb
        /\ (pc \in WholePositions \/ ret.kind = "pair") =>
              ~(size > max_file_size_mb)

C11_Witness ==
    /\ pc = "whole_enhance"
    /\ get_file_size_mb(utf8_rows) = max_file_size_mb
    /\ Len(utf8_rows) > 0
    /\ ledger # {}

(***************************************************************************)
(* C12: a file whose name holds no marker never gets past the category     *)
(* lookup: process_file fails with the ValueError (or earlier, on the stat *)
(* of the file), no temporary file was created, nothing was converted,     *)
(* read or upserted, the tables are as they were and the ledger has no     *)
(* entry for it.  A file whose name holds a marker is given one category:  *)
(* a marker that its upper-cased name contains, the first such marker in   *)
(* the order of FILE_MAPPINGS.                                             *)
(***************************************************************************)
MarkersIn(filename) ==
    { i \in 1..Len(Patterns) : Contains(Patterns[i], filename_upper(filename)) }

\* the markers of every file name the model draws
FileNameMarkers == [ f \in FileNames |-> MarkersIn(f) ]

C12_UnknownCategoryRejected ==
    pc \notin {"idle", "process_file"} =>
        LET markers == FileNameMarkers[cur.filename]
        IN  IF markers = {}
            THEN /\ raised \in {"ValueError", "stat_file"}
                 /\ file_type = NoType
                 /\ ~temp_exists
                 /\ ~utf8_file
                 /\ utf8_rows = <<>>
                 /\ reads = <<>>
                 /\ upserts = <<>>
                 /\ tables = tables0
                 /\ ret = NoRet
                 /\ CurKey \notin LedgerKeys
            ELSE /\ raised # "ValueError"
                 /\ raised # "stat_file" =>
                       /\ file_type \in DOMAIN FILE_MAPPINGS
                       /\ \E i \in markers :
                             /\ file_type = Patterns[i]
                             /\ \A j \in markers : i <= j

C12_Witness ==
    /\ pc = "file_end"
    /\ raised = "ValueError"
    /\ cur.rows # <<>>
    /\ tables["motivos"] # {}

(***************************************************************************)
(* C13: after any sequence of mark_processed calls on a database the       *)
(* ledger holds one row per (directory, filename) pair, is_processed(d, f) *)
(* answers true exactly for the pairs that were marked in it (so a mark of *)
(* (d1, f) does not make (d2, f) processed) and get_processed_files(d) is  *)
(* the set of files marked under d; a mark_processed call of a pair that   *)
(* is present raises no error and leaves the whole ledger, processed_at of *)
(* that row included, as it was, whatever the time of the call, and a call *)
(* of a new pair adds one row and touches no other.                        *)
(***************************************************************************)
C13_LedgerKeyedByPair ==
    /\ [](/\ \A r1, r2 \in ledger :
              (r1.directory = r2.directory /\ r1.filename = r2.filename)
                  => r1 = r2
          /\ \A d \in LedgerDirectories, f \in FileNames :
              /\ (tracking_table /\ is_processed(processed_files, d, f))
                    <=> << d, f >> \in marks
              /\ (tracking_table /\ f \in get_processed_files(processed_files, d))
                    <=> << d, f >> \in marks)
    /\ [][ outcome' \in {"ignored", "inserted"} =>
             /\ raised' = "none"
             /\ ledger \subseteq ledger'
             /\ << cur'.directory, cur'.filename >> \in LedgerKeys
                   => ledger' = ledger
             /\ << cur'.directory, cur'.filename >> \notin LedgerKeys
                   => ledger' = ledger
                         \cup { LedgerRow(cur'.directory, cur'.filename, ret'.now) }
         ]_vars

C13_Witness ==
    /\ outcome = "ignored"
    /\ \E r \in ledger :
          /\ r.directory = cur.directory
          /\ r.filename = cur.filename
          /\ r.processed_at # ret.now
    /\ \E d \in LedgerDirectories :
          /\ d # cur.directory
          /\ ~is_processed(processed_files, d, cur.filename)

(***************************************************************************)
(* C14: whatever process_file returns is a pair whose second element is    *)
(* the destination table of the file's category; a load that went through  *)
(* the chunked loader (some window was read) returns such a pair too, with *)
(* no dataframe as its first element.                                      *)
(***************************************************************************)
C14_ReturnsPairWithTable ==
    ret # NoRet =>
        /\ ret.kind = "pair"
        /\ ret.table_name = FILE_MAPPINGS[file_type]

(***************************************************************************)
(* C15: the transformation of a batch of EMPRECSV returns as many rows as  *)
(* it was given; in capital_social a value written as digits, a comma,     *)
(* digits has become the number with the comma as its decimal point        *)
(* ("1234,56" is 1234.56), and a value that is not a number written with   *)
(* at most one comma or point has become null; every other column keeps    *)
(* its value, and a row's result is the one it has when transformed alone. *)
(***************************************************************************)
Separators == {",", "."}

\* digits, one comma, digits
IsDecimalComma(v) ==
    /\ v # Null
    /\ \E k \in 2..(Len(v) - 1) :
          /\ v[k] = ","
          /\ \A i \in 1..Len(v) : i # k => IsDigit(v[i])

\* the number a decimal-comma text writes: its digits, and as many decimals
\* as there are digits behind the comma
DecimalCommaValue(v) ==
    LET k == CHOOSE i \in 1..Len(v) : v[i] = ","
    IN  Float(Num(SelectSeq(v, IsDigit)), Len(v) - k)

\* not a number, however the separator is written
IsUnparseable(v) ==
    /\ v # Null
    /\ \/ \E i \in 1..Len(v) : ~IsDigit(v[i]) /\ v[i] \notin Separators
       \/ Cardinality({ i \in 1..Len(v) : v[i] \in Separators }) > 1
       \/ \A i \in 1..Len(v) : ~IsDigit(v[i])

C15_DecimalCoercion ==
    (pc = "transformed" /\ file_type = "EMPRECSV") =>
        /\ Len(df) = Len(cur.rows)
        /\ \A i \in 1..Len(df) :
              LET raw == cur.rows[i]
                  v   == raw[5]
                  w   == df[i]["capital_social"]
              IN  /\ IsDecimalComma(v) => w = DecimalCommaValue(v)
                  /\ IsUnparseable(v) => w = Null
                  /\ v = Null => w = Null
                  /\ \A c \in 1..Len(raw) :
                        c # 5 => df[i][COLUMN_MAPPINGS["EMPRECSV"][c]] = raw[c]
                  /\ df[i] = apply_transformations(<< raw >>, file_type)[1]

C15_Witness ==
    /\ pc = "transformed"
    /\ file_type = "EMPRECSV"
    /\ Len(df) = 2
    /\ cur.rows[1][5] = << "a", "b", "c" >>
    /\ df[1]["capital_social"] = Null
    /\ cur.rows[2][5] = << "1", "2", "3", "4", ",", "5", "6" >>
    /\ df[2]["capital_social"] = [mantissa |-> 123456, decimals |-> 2]

(***************************************************************************)
(* C16: in a transformed batch of ESTABELE an empty or null country code   *)
(* is unchanged, a code of fewer than 3 characters has zeros put in front  *)
(* of it up to 3 characters, and a code of 3 or more characters is         *)
(* unchanged.                                                              *)
(***************************************************************************)
Zeros(n) == [i \in 1..n |-> "0"]

C16_CountryCodePadded ==
    (pc = "transformed" /\ file_type = "ESTABELE") =>
        /\ Len(df) = Len(cur.rows)
        /\ \A i \in 1..Len(df) :
              LET v == cur.rows[i][10]
                  w == df[i]["pais"]
              IN  IF v = Null \/ v = <<>> THEN w = v
                  ELSE IF Len(v) >= 3 THEN w = v
                  ELSE w = Zeros(3 - Len(v)) \o v

(***************************************************************************)
(* C16, amended: an empty or null country code is unchanged; any other     *)
(* code loses its surrounding whitespace, and what remains, when shorter   *)
(* than 3 characters, has zeros put in front of it (behind a leading minus *)
(* sign) up to 3 characters: "76" and " 76" become "076", a blank code     *)
(* becomes "000"; a code of 3 or more characters without surrounding       *)
(* whitespace is unchanged.                                                *)
(***************************************************************************)
Spaces(n) == [i \in 1..n |-> " "]

\* core is v without its surrounding whitespace
IsCoreOf(core, v) ==
    /\ \E a, b \in 0..Len(v) : v = Spaces(a) \o core \o Spaces(b)
    /\ core # <<>> => (core[1] # " " /\ core[Len(core)] # " ")

C16_CountryCodeStrippedAndPadded ==
    (pc = "transformed" /\ file_type = "ESTABELE") =>
        /\ Len(df) = Len(cur.rows)
        /\ \A i \in 1..Len(df) :
              LET v == cur.rows[i][10]
                  w == df[i]["pais"]
              IN  IF v = Null \/ v = <<>> THEN w = v
                  ELSE \E n \in 0..Len(v) :
                         \E core \in { SubSeq(v, j, j + n - 1) : j \in 1..(Len(v) - n + 1) } :
                           /\ IsCoreOf(core, v)
                           /\ w = IF Len(core) >= 3 THEN core
                                  ELSE IF core # <<>> /\ core[1] = "-"
                                  THEN << "-" >> \o Zeros(3 - Len(core)) \o Tail(core)
                                  ELSE Zeros(3 - Len(core)) \o core

C16_Witness ==
    /\ pc = "transformed"
    /\ file_type = "ESTABELE"
    /\ Len(df) = 2
    /\ cur.rows[1][10] = << " ", "7", "6" >>
    /\ df[1]["pais"] = << "0", "7", "6" >>
    /\ cur.rows[2][10] = <<>>
    /\ df[2]["pais"] = <<>>
    /\ df[2]["data_situacao_cadastral"] = Null

(***************************************************************************)
(* C17: a chunked load of a file of a category with a reference            *)
(* enhancement that has left the window loop and returned, the source not  *)
(* having failed, has run the reconciliation to its end: at most one       *)
(* upsert of missing codes, issued after every window upsert, holding the  *)
(* codes of the external list absent from the table as the windows left    *)
(* it; the table then holds every code of the external list.               *)
(***************************************************************************)
C17_ReconcilerRunsAfterLastWindow ==
    (ret.kind = "None" /\ file_type \in DOMAIN REFERENCE_ENHANCEMENTS
        /\ ~SourceFailed) =>
        LET loaded == executemany(tables0[table_name], WindowRows(upserts))
        IN  /\ recon = "done"
            /\ Len(ReconcileUpserts) <= 1
            /\ \A i \in 1..Len(upserts) :
                  upserts[i].by = "reconcile" => i = Len(upserts)
            /\ (IF ReconcileUpserts = <<>> THEN <<>>
                ELSE ReconcileUpserts[1].rows)
                  = diff_data(external, existing_codes_db(loaded))
            /\ existing_codes_df(external)
                  \subseteq existing_codes_db(tables[table_name])

(***************************************************************************)
(* Vocabulary of C18.  The rows the chunked loader holds are those of its  *)
(* two frames: sample_df, bound before the loop and never released, and    *)
(* chunk_df, bound by each read and deleted after the upsert.              *)
(***************************************************************************)
InWindowLoop == pc \in {"chunk_read", "chunk_load"}

RowsHeld == Len(sample_df) + Len(df)

\* the sample: the first SampleRows rows of the file at most, transformed
SampleOfFile ==
    apply_transformations(
        SubSeq(utf8_rows, 1, Min(SampleRows, Len(utf8_rows))), file_type)

\* every window read so far was upserted in file order, without gap or
\* overlap, and is in the table before the next read is issued
WindowsInFileOrder ==
    /\ \A i \in 1..Len(WindowUpserts) :
          /\ WindowUpserts[i].first = reads[i].skip_rows
          /\ WindowUpserts[i].rows
                = apply_transformations(
                      SubSeq(utf8_rows, reads[i].skip_rows + 1,
                             reads[i].skip_rows + reads[i].got),
                      file_type)
    /\ \A i \in 1..(Len(reads) - 1) :
          reads[i + 1].skip_rows = reads[i].skip_rows + reads[i].got
    /\ pc = "chunk_read" =>
          /\ Len(WindowUpserts) = Len(reads)
          /\ tables[table_name]
                = executemany(tables0[table_name], WindowRows(upserts))
          /\ offset = Len(WindowRows(upserts))
    /\ pc = "chunk_load" =>
          /\ Len(WindowUpserts) = Len(reads) - 1
          /\ reads[Len(reads)].skip_rows = Len(WindowRows(upserts))
          /\ tables[table_name]
                = executemany(tables0[table_name], WindowRows(upserts))
          /\ df = SubSeq(utf8_rows, offset + 1, offset + Len(df))

(***************************************************************************)
(* C18, as the specification states it: in the window loop, whenever a     *)
(* read is about to be issued, every window read before it has been        *)
(* upserted and the table holds those rows; the windows follow one another *)
(* in the file without gap or overlap, each upsert carries the rows of its *)
(* window in file order; and the loader holds the rows of at most one      *)
(* window at any time: none when a read is issued, at most chunk_size      *)
(* while a window is transformed and upserted.                             *)
(* The code holds more: sample_df stays bound during the whole loop.       *)
(***************************************************************************)
C18_AtMostOneWindowHeld ==
    InWindowLoop =>
        /\ WindowsInFileOrder
        /\ (pc = "chunk_read" /\ reads # <<>>) => RowsHeld = 0
        /\ pc = "chunk_load" => RowsHeld <= chunk_size

(***************************************************************************)
(* C18, amended: in the window loop, whenever a read is about to be        *)
(* issued, every window read before it has been upserted and the table     *)
(* holds those rows; the windows follow one another in the file without    *)
(* gap or overlap, each upsert carries the rows of its window in file      *)
(* order; and besides the sample read before the loop (the first 100 rows  *)
(* of the file at most, kept until the loader returns) the loader holds    *)
(* the rows of at most one window: none when a read is issued, those of    *)
(* the window just read, at most chunk_size, while it is transformed and   *)
(* upserted.                                                               *)
(***************************************************************************)
C18_WindowsStrictlySequential ==
    InWindowLoop =>
        /\ WindowsInFileOrder
        /\ sample_df = SampleOfFile
        /\ Len(sample_df) <= SampleRows
        /\ pc = "chunk_read" =>
              /\ reads # <<>> => df = <<>>
              /\ RowsHeld = Len(sample_df)
        /\ pc = "chunk_load" =>
              /\ Len(df) <= chunk_size
              /\ RowsHeld <= SampleRows + chunk_size

C18_Witness ==
    /\ pc = "chunk_load"
    /\ Len(reads) = 2
    /\ Len(WindowUpserts) = 1
    /\ df # <<>>
    /\ sample_df # <<>>
    /\ utf8_rows[1] # utf8_rows[2]
    /\ tables[table_name] # tables0[table_name]

(***************************************************************************)
(* C19: whenever a window is read, the offset is the number of rows        *)
(* upserted so far in this load and a multiple of chunk_size, namely       *)
(* chunk_size times the number of windows completed (batch_num - 1 once    *)
(* the read has counted itself); after the upsert of a window the loop     *)
(* goes on to another read only if the window was full, and it is left     *)
(* with an offset that is no multiple of chunk_size only if the window was *)
(* shorter than chunk_size.                                                *)
(***************************************************************************)
C19_OffsetIsMultipleOfWindow ==
    /\ \A i \in 1..Len(reads) :
          /\ reads[i].skip_rows = (i - 1) * chunk_size
          /\ reads[i].skip_rows % chunk_size = 0
    /\ pc = "chunk_read" =>
          /\ offset = total_processed
          /\ offset = Len(WindowRows(upserts))
          /\ offset % chunk_size = 0
          /\ offset = batch_num * chunk_size
          /\ reads # <<>> => reads[Len(reads)].got = chunk_size
    /\ pc = "chunk_load" =>
          /\ offset = total_processed
          /\ offset = Len(WindowRows(upserts))
          /\ offset = (batch_num - 1) * chunk_size
          /\ batch_num = Len(reads)
    /\ (pc = "chunk_enhance" /\ reads[Len(reads)].got > 0) =>
          /\ offset = total_processed
          /\ offset % chunk_size # 0
          /\ reads[Len(reads)].got < chunk_size

C19_Witness ==
    /\ pc = "chunk_enhance"
    /\ chunk_size = 2
    /\ Len(reads) = 2
    /\ reads[2].skip_rows = 2
    /\ reads[2].got = 1
    /\ offset = 3
    /\ total_processed = 3

====
